---- MODULE Spec2Model ----
(***************************************************************************)
(* The machine manual application (crud.py over the models.py tables): the *)
(* five tables, the clock, the requests in flight, and one action per      *)
(* crud operation.  A commit is one atomic step of the storage engine that *)
(* either applies the session's pending changes or, when a column          *)
(* constraint of models.py is violated, applies none of them               *)
(* (IntegrityError).                                                       *)
(***************************************************************************)
EXTENDS Integers, Sequences, FiniteSets, TLC

VARIABLES
    machines,      \* table "machines":      id -> row
    issues,        \* table "issues":        id -> row
    updates,       \* table "issue_updates": id -> row
    maintenance,   \* table "maintenance":   id -> row
    employees,     \* table "employees":     id -> row
    now,           \* what datetime.utcnow() returns
    backend,       \* the storage engine DATABASE_URL selects
    procs,         \* create_machine calls in flight: their position and locals
    last           \* the call that completed last and what it returned or raised

vars == <<machines, issues, updates, maintenance, employees, now, backend, procs, last>>

(***************************************************************************)
(* Bounds of the model.                                                    *)
(***************************************************************************)
MaxTime      == 1   \* the clock runs over 0..MaxTime
MaxMachines  == 2   \* machine ids are 1..MaxMachines
MaxIssues    == 2
LcIssues     == 1   \* issues of the issue lifecycle specification
MaxEmployees == 2
NumProcs     == 2   \* concurrent create_machine calls
NumSlugs     == 2   \* distinct outcomes of the random source that are explored

(***************************************************************************)
(* Values.                                                                 *)
(***************************************************************************)
None   == "None"    \* Python None / SQL NULL in a text or enum column
NoTime == -1        \* SQL NULL in a DateTime column
NoRow  == 0         \* Query.first() finding no row
Unset  == <<>>      \* a local of a call that is not bound yet

Times == 0..MaxTime

IssueStatus == {"open", "in_progress", "closed"}

SlugLen == 8

Alphabet ==
    <<"a","b","c","d","e","f","g","h","i","j","k","l","m","n","o","p","q","r",
      "s","t","u","v","w","x","y","z","0","1","2","3","4","5","6","7","8","9">>

\* generate_slug: the slugs the random source can produce, as sequences of
\* SlugLen characters of Alphabet; the draws explored are those that take the
\* first character for the first SlugLen-1 positions and one of the first
\* NumSlugs characters for the last.
generate_slug ==
    { [i \in 1..SlugLen |-> IF i < SlugLen THEN Alphabet[1] ELSE Alphabet[k]] :
        k \in 1..NumSlugs }

Max(S) == IF S = {} THEN 0 ELSE CHOOSE x \in S : \A y \in S : y <= x
Min(S) == CHOOSE x \in S : \A y \in S : x <= y

\* The id an INTEGER PRIMARY KEY column gives the next inserted row.
NextId(table) == Max(DOMAIN table) + 1

\* table with row r stored under id
Put(table, id, r) == [i \in DOMAIN table \cup {id} |-> IF i = id THEN r ELSE table[i]]

\* table without the rows of ids
Drop(table, ids) == [i \in DOMAIN table \ ids |-> table[i]]

SetAttrsUnsetToDefault(row, payload) ==
    [f \in DOMAIN row |->
        IF f \in DOMAIN payload THEN payload[f]
        ELSE IF f \in {"location", "description", "phone", "department", "position"}
             THEN None
             ELSE row[f]]

SetAttrsRedrawingSlug(row, payload) ==
    [f \in DOMAIN row |->
        IF f \in DOMAIN payload THEN payload[f]
        ELSE IF f = "public_slug"
             THEN CHOOSE slug \in generate_slug : slug # row[f]
             ELSE row[f]]

\* dict(exclude_unset=True) applied with setattr: the fields of the payload
\* overwrite the row's, every other field stays.
SetAttrs(row, payload) ==
    [f \in DOMAIN row |-> IF f \in DOMAIN payload THEN payload[f] ELSE row[f]]

(***************************************************************************)
(* Column constraints of models.py, as the storage engine checks them at   *)
(* commit.                                                                 *)
(***************************************************************************)
MachineSlugUniqueNoCheck(t) == TRUE

\* Machine.public_slug: unique=True
MachineSlugUnique(t) ==
    \A a, b \in DOMAIN t : t[a].public_slug = t[b].public_slug => a = b

\* Machine: name nullable=False, serial_number unique=True (NULLs apart),
\* public_slug unique=True
MachineConstraints(t) ==
    /\ \A a \in DOMAIN t : t[a].name # None
    /\ \A a, b \in DOMAIN t :
          (t[a].serial_number # None /\ t[a].serial_number = t[b].serial_number) => a = b
    /\ MachineSlugUnique(t)

(***************************************************************************)
(* Machine operations.                                                     *)
(***************************************************************************)
get_machine(machine_id) ==
    IF machine_id \in DOMAIN machines THEN machine_id ELSE NoRow

get_machine_by_slug(slug) ==
    LET hit == {m \in DOMAIN machines : machines[m].public_slug = slug}
    IN  IF hit = {} THEN NoRow ELSE Min(hit)

\* The row create_machine adds: the payload's fields, the slug, and the column
\* defaults of created_at and updated_at.
NewMachine(payload, slug) ==
    [name |-> payload.name, serial_number |-> payload.serial_number,
     location |-> payload.location, description |-> payload.description,
     public_slug |-> slug, created_at |-> now, updated_at |-> now]

\* db.add(db_machine); db.commit() of create_machine
InsertMachine(payload, slug) ==
    LET id == NextId(machines)
        t  == Put(machines, id, NewMachine(payload, slug))
    IN  IF MachineConstraints(t)
        THEN /\ machines' = t
             /\ last' = [op |-> "create_machine", id |-> id, arg |-> payload, out |-> "ok"]
        ELSE /\ machines' = machines
             /\ last' = [op |-> "create_machine", id |-> NoRow, arg |-> payload,
                         out |-> "IntegrityError"]

\* create_machine run by one request alone: ensure_unique_slug loops until a
\* draw is held by no machine, and the insert follows.
CreateMachine(payload) ==
    /\ \E slug \in generate_slug :
          /\ get_machine_by_slug(slug) = NoRow
          /\ InsertMachine(payload, slug)
    /\ UNCHANGED <<issues, updates, maintenance, employees, now, backend, procs>>

\* create_machine, its first statement: the call is entered.
StartCreateMachine(p, payload) ==
    /\ procs[p].pc = "idle"
    /\ procs' = [procs EXCEPT ![p] = [pc |-> "ensure", payload |-> payload, slug |-> Unset]]
    /\ UNCHANGED <<machines, issues, updates, maintenance, employees, now, backend, last>>

EnsureUniqueSlugUnchecked(p, slug) ==
    /\ procs[p].pc = "ensure"
    /\ procs' = [procs EXCEPT ![p].pc = "insert", ![p].slug = slug]
    /\ UNCHANGED <<machines, issues, updates, maintenance, employees, now, backend, last>>

EnsureUniqueSlugReserving(p, slug) ==
    /\ procs[p].pc = "ensure"
    /\ procs' = IF /\ get_machine_by_slug(slug) = NoRow
                   /\ \A q \in DOMAIN procs : procs[q].pc = "insert" => procs[q].slug # slug
                THEN [procs EXCEPT ![p].pc = "insert", ![p].slug = slug]
                ELSE procs
    /\ UNCHANGED <<machines, issues, updates, maintenance, employees, now, backend, last>>

\* One turn of ensure_unique_slug's loop: a draw and its existence query.
EnsureUniqueSlug(p, slug) ==
    /\ procs[p].pc = "ensure"
    /\ procs' = IF get_machine_by_slug(slug) = NoRow
                THEN [procs EXCEPT ![p].pc = "insert", ![p].slug = slug]
                ELSE procs
    /\ UNCHANGED <<machines, issues, updates, maintenance, employees, now, backend, last>>

\* db.add(db_machine); db.commit() of the call in flight
CommitCreateMachine(p) ==
    /\ procs[p].pc = "insert"
    /\ InsertMachine(procs[p].payload, procs[p].slug)
    /\ procs' = [procs EXCEPT ![p] = [pc |-> "idle", payload |-> Unset, slug |-> Unset]]
    /\ UNCHANGED <<issues, updates, maintenance, employees, now, backend>>

\* update_machine: the payload's fields are set, updated_at is stamped, and
\* the commit applies the change unless a constraint forbids it.
UpdateMachine(machine_id, payload) ==
    /\ IF get_machine(machine_id) = NoRow
       THEN /\ machines' = machines
            /\ last' = [op |-> "update_machine", id |-> machine_id, arg |-> payload,
                        out |-> "None"]
       ELSE LET row == [SetAttrs(machines[machine_id], payload) EXCEPT !.updated_at = now]
                t   == [machines EXCEPT ![machine_id] = row]
            IN  IF MachineConstraints(t)
                THEN /\ machines' = t
                     /\ last' = [op |-> "update_machine", id |-> machine_id,
                                 arg |-> payload, out |-> "ok"]
                ELSE /\ machines' = machines
                     /\ last' = [op |-> "update_machine", id |-> machine_id,
                                 arg |-> payload, out |-> "IntegrityError"]
    /\ UNCHANGED <<issues, updates, maintenance, employees, now, backend, procs>>

\* The rows db.delete(db_machine) removes with the machine: the cascade
\* "all, delete-orphan" of Machine.issues, Machine.maintenance_records and
\* Issue.updates.
CascadeIssues(machine_id) == {i \in DOMAIN issues : issues[i].machine_id = machine_id}

CascadeUpdatesNone(machine_id) == {}

CascadeUpdates(machine_id) ==
    {u \in DOMAIN updates : updates[u].issue_id \in CascadeIssues(machine_id)}

CascadeMaintenance(machine_id) ==
    {k \in DOMAIN maintenance : maintenance[k].machine_id = machine_id}

\* delete_machine
DeleteMachine(machine_id) ==
    /\ IF get_machine(machine_id) = NoRow
       THEN /\ UNCHANGED <<machines, issues, updates, maintenance>>
            /\ last' = [op |-> "delete_machine", id |-> machine_id,
                        arg |-> <<{}, {}, {}>>, out |-> "False"]
       ELSE /\ machines' = Drop(machines, {machine_id})
            /\ issues' = Drop(issues, CascadeIssues(machine_id))
            /\ updates' = Drop(updates, CascadeUpdates(machine_id))
            /\ maintenance' = Drop(maintenance, CascadeMaintenance(machine_id))
            /\ last' = [op |-> "delete_machine", id |-> machine_id,
                        arg |-> <<CascadeIssues(machine_id), CascadeUpdates(machine_id),
                                  CascadeMaintenance(machine_id)>>,
                        out |-> "True"]
    /\ UNCHANGED <<employees, now, backend, procs>>

(***************************************************************************)
(* Issue, issue update and maintenance operations.                         *)
(***************************************************************************)
get_issue(issue_id) ==
    IF issue_id \in DOMAIN issues THEN issue_id ELSE NoRow

\* ForeignKey("machines.id") / ForeignKey("issues.id") at commit: PostgreSQL
\* refuses a row whose parent is missing; SQLite, opened without
\* PRAGMA foreign_keys, stores it.
ForeignKeyHolds(parent, id) == backend = "sqlite" \/ id \in DOMAIN parent

\* The row create_issue adds: reported_at is the caller's, or the clock when
\* the caller gives none; status and closed_at take the column defaults.
NewIssue(payload) ==
    [machine_id |-> payload.machine_id, title |-> payload.title,
     description |-> payload.description, reported_by |-> payload.reported_by,
     reported_at |-> IF payload.reported_at = NoTime THEN now ELSE payload.reported_at,
     status |-> "open", closed_at |-> NoTime]

\* create_issue
CreateIssue(payload) ==
    /\ LET id == NextId(issues)
       IN  IF ForeignKeyHolds(machines, payload.machine_id)
           THEN /\ issues' = Put(issues, id, NewIssue(payload))
                /\ last' = [op |-> "create_issue", id |-> id, arg |-> None, out |-> "ok"]
           ELSE /\ issues' = issues
                /\ last' = [op |-> "create_issue", id |-> NoRow, arg |-> None,
                            out |-> "IntegrityError"]
    /\ UNCHANGED <<machines, updates, maintenance, employees, now, backend, procs>>

SetStatusClearing(row, status) ==
    [row EXCEPT !.status = status,
                !.closed_at = IF status = "closed" THEN now ELSE NoTime]

SetStatusStamping(row, status) == [row EXCEPT !.status = status, !.closed_at = now]

SetStatusKeepingFirstClose(row, status) ==
    [row EXCEPT !.status = status,
                !.closed_at = IF status = "closed" /\ @ = NoTime THEN now ELSE @]

\* The two setattr of update_issue_status: status always, closed_at only when
\* the new status is closed.
SetStatus(row, status) ==
    [row EXCEPT !.status = status,
                !.closed_at = IF status = "closed" THEN now ELSE @]

\* update_issue_status
UpdateIssueStatus(issue_id, status) ==
    /\ IF get_issue(issue_id) = NoRow
       THEN /\ issues' = issues
            /\ last' = [op |-> "update_issue_status", id |-> NoRow, arg |-> None,
                        out |-> "None"]
       ELSE /\ issues' = [issues EXCEPT ![issue_id] = SetStatus(@, status)]
            /\ last' = [op |-> "update_issue_status", id |-> issue_id, arg |-> None,
                        out |-> "ok"]
    /\ UNCHANGED <<machines, updates, maintenance, employees, now, backend, procs>>

\* The row create_issue_update adds.
NewIssueUpdate(payload) ==
    [issue_id |-> payload.issue_id, note |-> payload.note, author |-> payload.author,
     created_at |-> now, status_change |-> payload.status_change]

IssueAfterUpdateIgnoringChange(payload) == issues

\* What create_issue_update leaves in the issues table: with a status_change it
\* calls update_issue_status, which changes the issue when it finds it.
IssueAfterUpdate(payload) ==
    IF payload.status_change # None /\ get_issue(payload.issue_id) # NoRow
    THEN [issues EXCEPT ![payload.issue_id] = SetStatus(@, payload.status_change)]
    ELSE issues

\* create_issue_update: the added row stays pending in the session (autoflush
\* is off) until the first commit, which is update_issue_status's when it finds
\* the issue and the function's own otherwise; that commit writes the row and
\* the status change together.
CreateIssueUpdate(payload) ==
    /\ LET id == NextId(updates)
       IN  IF ForeignKeyHolds(issues, payload.issue_id)
           THEN /\ updates' = Put(updates, id, NewIssueUpdate(payload))
                /\ issues' = IssueAfterUpdate(payload)
                /\ last' = [op |-> "create_issue_update", id |-> id,
                            arg |-> None,
                            out |-> "ok"]
           ELSE /\ UNCHANGED <<updates, issues>>
                /\ last' = [op |-> "create_issue_update", id |-> NoRow,
                            arg |-> None,
                            out |-> "IntegrityError"]
    /\ UNCHANGED <<machines, maintenance, employees, now, backend, procs>>

\* The row create_maintenance adds.
NewMaintenance(payload) ==
    [machine_id |-> payload.machine_id, title |-> payload.title,
     description |-> payload.description, performed_by |-> payload.performed_by,
     performed_at |-> IF payload.performed_at = NoTime THEN now ELSE payload.performed_at,
     next_due_at |-> payload.next_due_at]

\* create_maintenance
CreateMaintenance(payload) ==
    /\ LET id == NextId(maintenance)
       IN  IF ForeignKeyHolds(machines, payload.machine_id)
           THEN /\ maintenance' = Put(maintenance, id, NewMaintenance(payload))
                /\ last' = [op |-> "create_maintenance", id |-> id, arg |-> None,
                            out |-> "ok"]
           ELSE /\ maintenance' = maintenance
                /\ last' = [op |-> "create_maintenance", id |-> NoRow, arg |-> None,
                            out |-> "IntegrityError"]
    /\ UNCHANGED <<machines, issues, updates, employees, now, backend, procs>>

(***************************************************************************)
(* Employee operations.                                                    *)
(***************************************************************************)
EmployeeUniqueEmailOnly(t) ==
    \A a, b \in DOMAIN t : t[a].email = t[b].email => a = b

\* Employee.email and Employee.employee_id: unique=True
EmployeeUnique(t) ==
    \A a, b \in DOMAIN t :
        (t[a].email = t[b].email \/ t[a].employee_id = t[b].employee_id) => a = b

\* Employee: first_name, last_name, email, employee_id nullable=False
EmployeeNotNull(t) ==
    \A a \in DOMAIN t :
        /\ t[a].first_name # None
        /\ t[a].last_name # None
        /\ t[a].email # None
        /\ t[a].employee_id # None

\* What the commit of a changed employees table answers.
EmployeeCommit(t) ==
    IF ~EmployeeNotNull(t) THEN "NotNullViolation"
    ELSE IF ~EmployeeUnique(t) THEN "UniqueViolation"
    ELSE "ok"

get_employee(employee_id) ==
    IF employee_id \in DOMAIN employees THEN employee_id ELSE NoRow

EmployeeByEmail(t, email) ==
    LET hit == {e \in DOMAIN t : t[e].email = email}
    IN  IF hit = {} THEN NoRow ELSE Min(hit)

EmployeeByEmployeeId(t, code) ==
    LET hit == {e \in DOMAIN t : t[e].employee_id = code}
    IN  IF hit = {} THEN NoRow ELSE Min(hit)

get_employee_by_email(email) == EmployeeByEmail(employees, email)

get_employee_by_employee_id(code) == EmployeeByEmployeeId(employees, code)

\* The two ValueErrors of create_employee and update_employee.
EmailExists == "Email already exists"

EmployeeIdExists == "Employee ID already exists"

Conflict == {EmailExists, EmployeeIdExists}

\* The row create_employee adds.
NewEmployee(payload) ==
    [first_name |-> payload.first_name, last_name |-> payload.last_name,
     email |-> payload.email, phone |-> payload.phone,
     department |-> payload.department, position |-> payload.position,
     employee_id |-> payload.employee_id, is_active |-> payload.is_active,
     created_at |-> now, updated_at |-> now]

CreateChecksEmailOnly(payload) ==
    IF get_employee_by_email(payload.email) # NoRow THEN EmailExists ELSE "ok"

\* The two existence checks of create_employee, in their order.
CreateChecks(payload) ==
    IF get_employee_by_email(payload.email) # NoRow THEN EmailExists
    ELSE IF get_employee_by_employee_id(payload.employee_id) # NoRow THEN EmployeeIdExists
    ELSE "ok"

\* create_employee
CreateEmployee(payload) ==
    /\ LET id      == NextId(employees)
           t       == Put(employees, id, NewEmployee(payload))
           checked == CreateChecks(payload)
           answer  == IF checked = "ok" THEN EmployeeCommit(t) ELSE checked
       IN  /\ employees' = IF answer = "ok" THEN t ELSE employees
           /\ last' = [op |-> "create_employee", id |-> IF answer = "ok" THEN id ELSE NoRow,
                       arg |-> payload, out |-> answer]
    /\ UNCHANGED <<machines, issues, updates, maintenance, now, backend, procs>>

UpdateChecksWithoutSelfExclusion(id, payload) ==
    IF "email" \in DOMAIN payload /\ get_employee_by_email(payload.email) # NoRow
    THEN EmailExists
    ELSE IF /\ "employee_id" \in DOMAIN payload
            /\ get_employee_by_employee_id(payload.employee_id) # NoRow
    THEN EmployeeIdExists
    ELSE "ok"

UpdateChecksEmailOnly(id, payload) ==
    IF /\ "email" \in DOMAIN payload
       /\ payload.email # employees[id].email
       /\ get_employee_by_email(payload.email) # NoRow
    THEN EmailExists
    ELSE "ok"

\* The two conflict checks of update_employee, in their order: a field is
\* looked up only when the payload holds it with a value other than the
\* employee's own.
UpdateChecks(id, payload) ==
    IF /\ "email" \in DOMAIN payload
       /\ payload.email # employees[id].email
       /\ get_employee_by_email(payload.email) # NoRow
    THEN EmailExists
    ELSE IF /\ "employee_id" \in DOMAIN payload
            /\ payload.employee_id # employees[id].employee_id
            /\ get_employee_by_employee_id(payload.employee_id) # NoRow
    THEN EmployeeIdExists
    ELSE "ok"

\* The setattr loop of update_employee and the stamp of updated_at.
UpdatedEmployee(row, payload) == [SetAttrs(row, payload) EXCEPT !.updated_at = now]

UpdateEmployeeSettingAsItChecks(employee_id, payload) ==
    /\ IF get_employee(employee_id) = NoRow
       THEN /\ employees' = employees
            /\ last' = [op |-> "update_employee", id |-> employee_id, arg |-> payload,
                        out |-> "None"]
       ELSE LET t       == [employees EXCEPT ![employee_id] = UpdatedEmployee(@, payload)]
                checked == UpdateChecks(employee_id, payload)
                answer  == IF checked = "ok" THEN EmployeeCommit(t) ELSE checked
            IN  /\ employees' =
                      IF answer = "ok" THEN t
                      ELSE IF answer = EmployeeIdExists
                      THEN [employees EXCEPT ![employee_id].first_name = t[employee_id].first_name]
                      ELSE employees
                /\ last' = [op |-> "update_employee", id |-> employee_id, arg |-> payload,
                            out |-> answer]
    /\ UNCHANGED <<machines, issues, updates, maintenance, now, backend, procs>>

\* update_employee
UpdateEmployee(employee_id, payload) ==
    /\ IF get_employee(employee_id) = NoRow
       THEN /\ employees' = employees
            /\ last' = [op |-> "update_employee", id |-> employee_id, arg |-> payload,
                        out |-> "None"]
       ELSE LET t       == [employees EXCEPT ![employee_id] = UpdatedEmployee(@, payload)]
                checked == UpdateChecks(employee_id, payload)
                answer  == IF checked = "ok" THEN EmployeeCommit(t) ELSE checked
            IN  /\ employees' = IF answer = "ok" THEN t ELSE employees
                /\ last' = [op |-> "update_employee", id |-> employee_id, arg |-> payload,
                            out |-> answer]
    /\ UNCHANGED <<machines, issues, updates, maintenance, now, backend, procs>>

SetActiveRemoving(op, employee_id, flag) ==
    /\ IF get_employee(employee_id) = NoRow
       THEN /\ employees' = employees
            /\ last' = [op |-> op, id |-> employee_id, arg |-> None, out |-> "False"]
       ELSE /\ employees' = IF flag = 0
                            THEN Drop(employees, {employee_id})
                            ELSE [employees EXCEPT ![employee_id].is_active = flag,
                                                   ![employee_id].updated_at = now]
            /\ last' = [op |-> op, id |-> employee_id, arg |-> None, out |-> "True"]
    /\ UNCHANGED <<machines, issues, updates, maintenance, now, backend, procs>>

\* delete_employee (flag = 0) and reactivate_employee (flag = 1)
SetActive(op, employee_id, flag) ==
    /\ IF get_employee(employee_id) = NoRow
       THEN /\ employees' = employees
            /\ last' = [op |-> op, id |-> employee_id, arg |-> None, out |-> "False"]
       ELSE /\ employees' = [employees EXCEPT ![employee_id].is_active = flag,
                                              ![employee_id].updated_at = now]
            /\ last' = [op |-> op, id |-> employee_id, arg |-> None, out |-> "True"]
    /\ UNCHANGED <<machines, issues, updates, maintenance, now, backend, procs>>

DeleteEmployee(employee_id) == SetActive("delete_employee", employee_id, 0)

ReactivateEmployee(employee_id) == SetActive("reactivate_employee", employee_id, 1)

\* The clock moves on between two statements.
Tick ==
    /\ now < MaxTime
    /\ now' = now + 1
    /\ UNCHANGED <<machines, issues, updates, maintenance, employees, backend, procs, last>>

(***************************************************************************)
(* The state after the tables are created and before any request.          *)
(***************************************************************************)
NoCall == [op |-> "none", id |-> NoRow, arg |-> None, out |-> None]

IdleProc == [pc |-> "idle", payload |-> Unset, slug |-> Unset]

Init ==
    /\ machines = <<>>
    /\ issues = <<>>
    /\ updates = <<>>
    /\ maintenance = <<>>
    /\ employees = <<>>
    /\ now = 0
    /\ backend \in {"sqlite", "postgres"}
    /\ procs = [p \in 1..NumProcs |-> IdleProc]
    /\ last = NoCall

(***************************************************************************)
(* SpecSlug: concurrent create_machine calls, with update_machine and      *)
(* delete_machine between their statements.                                *)
(***************************************************************************)
SlugCreatePayloads ==
    { [name |-> "Presse", serial_number |-> None, location |-> None, description |-> None] }

SlugUpdatePayloads == { <<>>, [name |-> "Drehbank"] }

NextSlug ==
    \/ \E p \in 1..NumProcs, payload \in SlugCreatePayloads : StartCreateMachine(p, payload)
    \/ \E p \in 1..NumProcs, slug \in generate_slug : EnsureUniqueSlug(p, slug)
    \/ /\ NextId(machines) <= MaxMachines
       /\ \E p \in 1..NumProcs : CommitCreateMachine(p)
    \/ \E m \in 1..MaxMachines, payload \in SlugUpdatePayloads : UpdateMachine(m, payload)
    \/ \E m \in 1..MaxMachines : DeleteMachine(m)

SpecSlug == Init /\ [][NextSlug]_vars

\* C1: in every reachable state, under any interleaving of create_machine,
\* update_machine and delete_machine calls, no two stored machines hold the
\* same public_slug.
C1_SlugsDistinct ==
    \A a, b \in DOMAIN machines : a # b => machines[a].public_slug # machines[b].public_slug

\* Two calls passed the existence check with the same slug, one insert was
\* committed and the other was refused.
C1_Witness ==
    /\ last.op = "create_machine"
    /\ last.out = "IntegrityError"
    /\ Cardinality(DOMAIN machines) >= 1

(***************************************************************************)
(* Spec: the issue lifecycle.  One machine is registered; issues are       *)
(* reported against it, with or without a reported_at of the caller's;     *)
(* their status is set directly and through an issue update (the table     *)
(* takes one issue update, addressed to any issue id).                     *)
(***************************************************************************)
MachinePayload ==
    [name |-> "Presse", serial_number |-> None, location |-> None, description |-> None]

\* The store after create_sample_data's first create_machine call.
InitSeeded ==
    /\ machines = Put(<<>>, 1, [name |-> MachinePayload.name,
                                serial_number |-> MachinePayload.serial_number,
                                location |-> MachinePayload.location,
                                description |-> MachinePayload.description,
                                public_slug |-> CHOOSE slug \in generate_slug : TRUE,
                                created_at |-> 0, updated_at |-> 0])
    /\ issues = <<>>
    /\ updates = <<>>
    /\ maintenance = <<>>
    /\ employees = <<>>
    /\ now = 0
    /\ backend \in {"sqlite", "postgres"}
    /\ procs = [p \in 1..NumProcs |-> IdleProc]
    /\ last = [op |-> "create_machine", id |-> 1, arg |-> MachinePayload, out |-> "ok"]

IssuePayloads ==
    { [machine_id |-> 1, title |-> "Leck", description |-> None,
       reported_by |-> "Ada Berg", reported_at |-> t] : t \in Times \cup {NoTime} }

StatusChanges == IssueStatus \cup {None}

UpdatePayloads ==
    { [issue_id |-> i, note |-> "geprueft", author |-> "Ada Berg", status_change |-> s] :
         i \in 1..LcIssues, s \in StatusChanges }

Next ==
    \/ /\ NextId(issues) <= LcIssues
       /\ \E payload \in IssuePayloads : CreateIssue(payload)
    \/ \E i \in 1..LcIssues, s \in IssueStatus : UpdateIssueStatus(i, s)
    \/ /\ updates = <<>>
       /\ \E payload \in UpdatePayloads : CreateIssueUpdate(payload)
    \/ Tick

Spec == InitSeeded /\ [][Next]_vars

\* C2: update_issue_status with status closed leaves the issue with a closed_at
\* that is not null and not earlier than its reported_at, whatever reported_at
\* create_issue stored.
C2_ClosedAtNotBeforeReport ==
    [][\A i \in DOMAIN issues :
          UpdateIssueStatus(i, "closed") =>
              /\ issues'[i].closed_at # NoTime
              /\ issues'[i].closed_at >= issues'[i].reported_at]_vars

\* C3: a step that leaves an issue open or in_progress, by update_issue_status
\* or by create_issue_update, leaves its closed_at as it was.
C3_ClosedAtKept ==
    [][\A i \in DOMAIN issues \cap DOMAIN issues' :
          issues'[i].status \in {"open", "in_progress"} =>
              issues'[i].closed_at = issues[i].closed_at]_vars

\* An issue closed earlier was set to open by update_issue_status and still
\* carries the time of its close.
C3_Witness ==
    /\ last.op = "update_issue_status"
    /\ last.out = "ok"
    /\ issues[last.id].status = "open"
    /\ issues[last.id].closed_at # NoTime

\* C4 as claimed: closed_at is null unless the status is closed.
C4_NullUnlessClosed ==
    \A i \in DOMAIN issues : issues[i].status # "closed" => issues[i].closed_at = NoTime

\* C4 as amended: closed_at is null until the issue is first set to closed: a
\* step leaves an issue with a closed_at only if it leaves the issue closed or
\* the issue had a closed_at before the step, and it leaves no closed issue
\* without one.
C4_NullUntilFirstClose ==
    [][\A i \in DOMAIN issues' :
          /\ issues'[i].closed_at # NoTime =>
                \/ issues'[i].status = "closed"
                \/ i \in DOMAIN issues /\ issues[i].closed_at # NoTime
          /\ issues'[i].status = "closed" => issues'[i].closed_at # NoTime]_vars

\* An issue that was closed and then set to in_progress through an issue
\* update: not closed, with a closed_at.
C4_Witness ==
    /\ last.op = "create_issue_update"
    /\ \E i \in DOMAIN issues :
          /\ issues[i].status = "in_progress"
          /\ issues[i].closed_at # NoTime

\* C5: for an existing issue in any status, create_issue_update with a
\* status_change s stores an issue update carrying s and leaves the issue with
\* status s, and with a closed_at when s is closed; without a status_change it
\* stores the issue update and leaves the issue's status and closed_at alone.
C5_UpdateAppliesStatusChange ==
    [][\A payload \in UpdatePayloads :
          (payload.issue_id \in DOMAIN issues /\ CreateIssueUpdate(payload)) =>
              LET u == NextId(updates)
                  i == payload.issue_id
                  s == payload.status_change
              IN  /\ u \in DOMAIN updates' \ DOMAIN updates
                  /\ updates'[u].issue_id = i
                  /\ updates'[u].status_change = s
                  /\ IF s # None
                     THEN /\ issues'[i].status = s
                          /\ s = "closed" => issues'[i].closed_at = now
                     ELSE /\ issues'[i].status = issues[i].status
                          /\ issues'[i].closed_at = issues[i].closed_at]_vars

\* An issue update carrying closed is stored and its issue is closed, with the
\* closed_at of that moment.
C5_Witness ==
    /\ last.op = "create_issue_update"
    /\ last.out = "ok"
    /\ updates[last.id].status_change = "closed"
    /\ updates[last.id].issue_id \in DOMAIN issues
    /\ issues[updates[last.id].issue_id].status = "closed"
    /\ issues[updates[last.id].issue_id].closed_at = updates[last.id].created_at

\* A step in which the call op completed: it is the last call after the step,
\* and the step is not the clock's.
CallStep(op) ==
    /\ last'.op = op
    /\ \/ last.op # op
       \/ last'.id # last.id
       \/ last'.out # last.out
       \/ last'.arg # last.arg
       \/ <<machines, issues, updates, maintenance, employees>>'
             # <<machines, issues, updates, maintenance, employees>>

(***************************************************************************)
(* SpecCascade: machines with issues, an issue update and a maintenance    *)
(* record, reported against any machine or issue id, and delete_machine.   *)
(***************************************************************************)
CascadeIssuePayloads ==
    { [machine_id |-> m, title |-> "Leck", description |-> None,
       reported_by |-> "Ada Berg", reported_at |-> NoTime] : m \in 1..MaxMachines }

CascadeUpdatePayloads ==
    { [issue_id |-> i, note |-> "geprueft", author |-> "Ada Berg", status_change |-> None] :
         i \in 1..MaxIssues }

CascadeMaintenancePayloads ==
    { [machine_id |-> m, title |-> "Oelwechsel", description |-> None,
       performed_by |-> "Ada Berg", performed_at |-> NoTime, next_due_at |-> NoTime] :
         m \in 1..MaxMachines }

NextCascade ==
    \/ /\ NextId(machines) <= MaxMachines
       /\ CreateMachine(MachinePayload)
    \/ /\ NextId(issues) <= MaxIssues
       /\ \E payload \in CascadeIssuePayloads : CreateIssue(payload)
    \/ /\ updates = <<>>
       /\ \E payload \in CascadeUpdatePayloads : CreateIssueUpdate(payload)
    \/ /\ maintenance = <<>>
       /\ \E payload \in CascadeMaintenancePayloads : CreateMaintenance(payload)
    \/ \E m \in 1..MaxMachines : DeleteMachine(m)

SpecCascade == Init /\ [][NextCascade]_vars

\* C6: after delete_machine succeeds for a machine, the machine, its issues,
\* the issue updates of those issues and its maintenance records are gone from
\* the tables, so no lookup finds them, and every other row is as it was.
C6_DeleteCascades ==
    [][(CallStep("delete_machine") /\ last'.out = "True") =>
          LET m     == last'.id
              gone  == {i \in DOMAIN issues : issues[i].machine_id = m}
              goneU == {u \in DOMAIN updates : updates[u].issue_id \in gone}
              goneM == {k \in DOMAIN maintenance : maintenance[k].machine_id = m}
          IN  /\ m \in DOMAIN machines
              /\ DOMAIN machines' = DOMAIN machines \ {m}
              /\ DOMAIN issues' = DOMAIN issues \ gone
              /\ DOMAIN updates' = DOMAIN updates \ goneU
              /\ DOMAIN maintenance' = DOMAIN maintenance \ goneM
              /\ \A i \in DOMAIN issues' : issues'[i].machine_id # m
              /\ \A u \in DOMAIN updates' : updates'[u].issue_id \notin gone
              /\ \A k \in DOMAIN maintenance' : maintenance'[k].machine_id # m
              /\ \A x \in DOMAIN machines' : machines'[x] = machines[x]
              /\ \A i \in DOMAIN issues' : issues'[i] = issues[i]
              /\ \A u \in DOMAIN updates' : updates'[u] = updates[u]
              /\ \A k \in DOMAIN maintenance' : maintenance'[k] = maintenance[k]]_vars

\* A machine was deleted together with an issue, that issue's update and a
\* maintenance record, and another machine and its issue are still stored.
C6_Witness ==
    /\ last.op = "delete_machine"
    /\ last.out = "True"
    /\ last.arg[1] # {}
    /\ last.arg[2] # {}
    /\ last.arg[3] # {}
    /\ \E i \in DOMAIN issues : issues[i].machine_id \in DOMAIN machines

(***************************************************************************)
(* SpecUpd: partial updates of one stored entity, a machine or an          *)
(* employee, with every set of payload fields.                             *)
(***************************************************************************)
Restrict(f, D) == [x \in D |-> f[x]]

UpdMachineCreate ==
    [name |-> "Presse", serial_number |-> "PL-A-2023-001", location |-> None,
     description |-> None]

UpdMachineFields ==
    [name |-> "Drehbank", serial_number |-> "DMU50-2022-003", location |-> "Halle 2",
     description |-> "Prototypen"]

\* MachineUpdate payloads: every set of fields, and a name set to None.
UpdMachinePayloads ==
    { Restrict(UpdMachineFields, D) : D \in SUBSET DOMAIN UpdMachineFields }
        \cup { [name |-> None] }

UpdEmployeeCreate ==
    [first_name |-> "Ada", last_name |-> "Berg", email |-> "ada@werk.de", phone |-> "555",
     department |-> None, position |-> None, employee_id |-> "E1", is_active |-> 1]

UpdEmployeeFields ==
    [first_name |-> "Eva", last_name |-> "Cole", email |-> "eva@werk.de", phone |-> None,
     department |-> "Instandhaltung", position |-> "Leitung", employee_id |-> "E9",
     is_active |-> 0]

\* EmployeeUpdate payloads: every set of five of the fields, all eight as
\* admin_update_employee sends them, and an email set to None.
UpdEmployeePayloads ==
    { Restrict(UpdEmployeeFields, D) :
        D \in SUBSET {"first_name", "email", "phone", "employee_id", "is_active"} }
        \cup { UpdEmployeeFields, [email |-> None] }

NextUpd ==
    \/ /\ machines = <<>>
       /\ employees = <<>>
       /\ CreateMachine(UpdMachineCreate)
    \/ /\ machines = <<>>
       /\ employees = <<>>
       /\ CreateEmployee(UpdEmployeeCreate)
    \/ \E payload \in UpdMachinePayloads : UpdateMachine(1, payload)
    \/ \E payload \in UpdEmployeePayloads : UpdateEmployee(1, payload)
    \/ Tick

SpecUpd == Init /\ [][NextUpd]_vars

\* What an update call may do to a stored row: the fields absent from the
\* payload, updated_at apart, stay; when the call succeeds the fields of the
\* payload take the payload's values and updated_at the clock's; when it does
\* not, the row stays as it was.
PartialMerge(before, after, payload, out) ==
    /\ \A f \in DOMAIN before \ (DOMAIN payload \cup {"updated_at"}) : after[f] = before[f]
    /\ out = "ok" => /\ \A f \in DOMAIN payload : after[f] = payload[f]
                     /\ after.updated_at = now
    /\ out # "ok" => after = before
    /\ DOMAIN payload = {} => out = "ok"

\* C7: update_machine and update_employee overwrite the fields of the payload
\* and no other than updated_at; with an empty payload the row is the same
\* before and after, updated_at apart.
C7_PartialUpdate ==
    [][/\ (CallStep("update_machine") /\ last'.id \in DOMAIN machines) =>
             /\ last'.id \in DOMAIN machines'
             /\ PartialMerge(machines[last'.id], machines'[last'.id], last'.arg, last'.out)
       /\ (CallStep("update_employee") /\ last'.id \in DOMAIN employees) =>
             /\ last'.id \in DOMAIN employees'
             /\ PartialMerge(employees[last'.id], employees'[last'.id], last'.arg,
                             last'.out)]_vars

\* update_employee ran with an empty payload on an employee whose fields an
\* earlier update had set: updated_at moved, the fields are those of before.
C7_Witness ==
    /\ last.op = "update_employee"
    /\ last.out = "ok"
    /\ DOMAIN last.arg = {}
    /\ employees[1].first_name = UpdEmployeeFields.first_name
    /\ employees[1].phone = UpdEmployeeCreate.phone
    /\ employees[1].updated_at > employees[1].created_at

(***************************************************************************)
(* SpecEmp: employees created, updated, deactivated and reactivated, one   *)
(* call at a time, with emails and employee ids that collide.              *)
(***************************************************************************)
EmailPool == <<"ada@werk.de", "bea@werk.de", "cem@werk.de", "dan@werk.de">>

CodePool == <<"E1", "E2", "E3", "E4">>

Emails == { EmailPool[k] : k \in 1..MaxEmployees }

Codes == { CodePool[k] : k \in 1..MaxEmployees }

EmpCreatePayloads ==
    { [first_name |-> "Ada", last_name |-> "Berg", email |-> e, phone |-> None,
       department |-> None, position |-> None, employee_id |-> c, is_active |-> 1] :
         e \in Emails, c \in Codes }

EmpUpdatePayloads ==
    { <<>> } \cup { [email |-> e] : e \in Emails \cup {None} }
             \cup { [employee_id |-> c] : c \in Codes }
             \cup { [email |-> e, employee_id |-> c] : e \in Emails, c \in Codes }

NextEmp ==
    \/ /\ NextId(employees) <= MaxEmployees
       /\ \E payload \in EmpCreatePayloads : CreateEmployee(payload)
    \/ \E e \in 1..MaxEmployees, payload \in EmpUpdatePayloads : UpdateEmployee(e, payload)
    \/ \E e \in 1..MaxEmployees : DeleteEmployee(e)
    \/ \E e \in 1..MaxEmployees : ReactivateEmployee(e)

SpecEmp == Init /\ [][NextEmp]_vars

\* C8: create_employee raises a Conflict whenever a stored employee has the
\* payload's email or its employee_id; otherwise it succeeds, and both
\* get_employee_by_email and get_employee_by_employee_id then return the new
\* employee.
C8_CreateEmployee ==
    [][CallStep("create_employee") =>
          LET payload == last'.arg
              taken   == \E e \in DOMAIN employees :
                            \/ employees[e].email = payload.email
                            \/ employees[e].employee_id = payload.employee_id
          IN  IF taken
              THEN last'.out \in Conflict
              ELSE /\ last'.out = "ok"
                   /\ last'.id \in DOMAIN employees' \ DOMAIN employees
                   /\ EmployeeByEmail(employees', payload.email) = last'.id
                   /\ EmployeeByEmployeeId(employees', payload.employee_id) = last'.id]_vars

\* create_employee raised "Employee ID already exists": the email was free
\* and the employee_id was a stored employee's.
C8_Witness ==
    /\ last.op = "create_employee"
    /\ last.out = EmployeeIdExists
    /\ get_employee_by_email(last.arg.email) = NoRow
    /\ get_employee_by_employee_id(last.arg.employee_id) # NoRow

\* C9: update_employee raises a Conflict exactly when the payload holds an
\* email, or an employee_id, that is not the employee's own and that a stored
\* employee has; a field whose value is the employee's own raises none.
C9_UpdateEmployeeConflict ==
    [][(CallStep("update_employee") /\ last'.id \in DOMAIN employees) =>
          LET payload == last'.arg
              own     == employees[last'.id]
              email   == /\ "email" \in DOMAIN payload
                         /\ payload.email # own.email
                         /\ \E e \in DOMAIN employees : employees[e].email = payload.email
              code    == /\ "employee_id" \in DOMAIN payload
                         /\ payload.employee_id # own.employee_id
                         /\ \E e \in DOMAIN employees :
                               employees[e].employee_id = payload.employee_id
          IN  /\ last'.out \in Conflict <=> (email \/ code)
              /\ last'.out = EmailExists <=> email
              /\ ("email" \in DOMAIN payload /\ payload.email = own.email) =>
                    last'.out # EmailExists
              /\ ("employee_id" \in DOMAIN payload /\ payload.employee_id = own.employee_id) =>
                    last'.out # EmployeeIdExists]_vars

\* update_employee succeeded with a payload holding an email while every email
\* of the pool is a stored employee's: the email was the employee's own, since
\* one taken from another employee would have raised and a free one would have
\* left the old one free.
C9_Witness ==
    /\ last.op = "update_employee"
    /\ last.out = "ok"
    /\ "email" \in DOMAIN last.arg
    /\ last.arg.email = employees[last.id].email
    /\ { employees[e].email : e \in DOMAIN employees } = Emails

\* C10: under calls made one at a time no two stored employees, active or
\* not, share an email or an employee_id, and no commit is ever refused by
\* the unique constraints: the checks of create_employee and update_employee
\* alone keep the columns unique.
C10_EmployeesUnique ==
    /\ EmployeeUnique(employees)
    /\ last.out # "UniqueViolation"

\* update_employee raised a Conflict for the email of a deactivated employee.
C10_Witness ==
    /\ last.op = "update_employee"
    /\ last.out = EmailExists
    /\ employees[get_employee_by_email(last.arg.email)].is_active = 0

(***************************************************************************)
(* Dashboard queries.  A text is an atom; Chars spells it out for ilike.   *)
(***************************************************************************)
Chars(text) ==
    CASE text = "Linie A" -> <<"L", "i", "n", "i", "e", " ", "A">>
      [] text = "CNC"     -> <<"C", "N", "C">>
      [] text = "Halle 1" -> <<"H", "a", "l", "l", "e", " ", "1">>
      [] text = "Halle 2" -> <<"H", "a", "l", "l", "e", " ", "2">>
      [] text = "halle"   -> <<"h", "a", "l", "l", "e">>
      [] text = "cnc"     -> <<"c", "n", "c">>
      [] text = "e A"     -> <<"e", " ", "A">>
      [] text = "PL-A"    -> <<"P", "L", "-", "A">>
      [] text = "DMU50"   -> <<"D", "M", "U", "5", "0">>

LowerChar(c) ==
    CASE c = "A" -> "a" [] c = "C" -> "c" [] c = "D" -> "d" [] c = "H" -> "h"
      [] c = "L" -> "l" [] c = "M" -> "m" [] c = "N" -> "n" [] c = "P" -> "p"
      [] c = "U" -> "u" [] OTHER -> c

Lower(chars) == [k \in 1..Len(chars) |-> LowerChar(chars[k])]

\* column.ilike("%query%"): a NULL column matches nothing
ILike(value, query) ==
    /\ value # None
    /\ LET v == Lower(Chars(value))
           q == Lower(Chars(query))
       IN  \E k \in 0..(Len(v) - Len(q)) : SubSeq(v, k + 1, k + Len(q)) = q

\* order_by(desc(key)).all() over the rows S, key the column as a function of
\* the row: every order the key allows, rows of equal key in any order
OrderedDesc(S, key) ==
    { s \in [1..Cardinality(S) -> S] :
        /\ \A a, b \in DOMAIN s : s[a] = s[b] => a = b
        /\ \A a, b \in DOMAIN s : a < b => key[s[a]] >= key[s[b]] }

\* offset(skip).limit(limit)
Page(rows, skip, limit) == SubSeq(rows, skip + 1, Min({Len(rows), skip + limit}))

MachineCreatedAt == [m \in DOMAIN machines |-> machines[m].created_at]

IssueReportedAt == [i \in DOMAIN issues |-> issues[i].reported_at]

OpenIssuesOfAnyStatus(machine_id) ==
    { i \in DOMAIN issues : issues[i].machine_id = machine_id }

\* filter(Issue.machine_id == machine.id, Issue.status.in_([open, in_progress]))
OpenIssuesOf(machine_id) ==
    { i \in DOMAIN issues : /\ issues[i].machine_id = machine_id
                            /\ issues[i].status \in {"open", "in_progress"} }

\* The open_issues lists the loop may load, one list per machine.
OpenIssueLoads ==
    LET orders(m) == OrderedDesc(OpenIssuesOf(m), IssueReportedAt)
    IN  { load \in [DOMAIN machines -> UNION { orders(m) : m \in DOMAIN machines }] :
            \A m \in DOMAIN machines : load[m] \in orders(m) }

WithOpenIssues(rows, load) ==
    [k \in 1..Len(rows) |-> [machine |-> rows[k], open_issues |-> load[rows[k]]]]

\* get_machines_with_open_issues
GetMachinesWithOpenIssues(skip, limit) ==
    /\ \E rows \in OrderedDesc(DOMAIN machines, MachineCreatedAt), load \in OpenIssueLoads :
          last' = [op |-> "get_machines_with_open_issues", id |-> NoRow,
                   arg |-> <<skip, limit>>,
                   out |-> WithOpenIssues(Page(rows, skip, limit), load)]
    /\ UNCHANGED <<machines, issues, updates, maintenance, employees, now, backend, procs>>

SearchHits(query) ==
    { m \in DOMAIN machines : \/ ILike(machines[m].name, query)
                              \/ ILike(machines[m].serial_number, query)
                              \/ ILike(machines[m].location, query) }

\* search_machines_with_open_issues
SearchMachinesWithOpenIssues(query) ==
    /\ \E rows \in OrderedDesc(SearchHits(query), MachineCreatedAt), load \in OpenIssueLoads :
          last' = [op |-> "search_machines_with_open_issues", id |-> NoRow,
                   arg |-> query, out |-> WithOpenIssues(rows, load)]
    /\ UNCHANGED <<machines, issues, updates, maintenance, employees, now, backend, procs>>

(***************************************************************************)
(* SpecDash: two machines, issues reported against either with the clock's *)
(* or a later reported_at, status changes, and the two dashboard queries.  *)
(***************************************************************************)
DashMachine1 ==
    [name |-> "Linie A", serial_number |-> "PL-A", location |-> "Halle 1",
     description |-> None]

DashMachine2 ==
    [name |-> "CNC", serial_number |-> None, location |-> "Halle 2",
     description |-> None]

DashIssuePayload(machine_id, reported_at) ==
    [machine_id |-> machine_id, title |-> "Leck", description |-> None,
     reported_by |-> "Ada Berg", reported_at |-> reported_at]

\* The database after two create_machine and three create_issue calls: two
\* issues of the first machine, reported together or not, and a third of
\* either machine.
InitDash ==
    /\ now = 0
    /\ LET s1 == CHOOSE s \in generate_slug : TRUE
           s2 == CHOOSE s \in generate_slug : s # s1
       IN  machines = <<NewMachine(DashMachine1, s1), NewMachine(DashMachine2, s2)>>
    /\ \E t \in {NoTime, MaxTime}, m \in 1..2 :
          issues = <<NewIssue(DashIssuePayload(1, NoTime)),
                     NewIssue(DashIssuePayload(1, t)),
                     NewIssue(DashIssuePayload(m, NoTime))>>
    /\ updates = <<>>
    /\ maintenance = <<>>
    /\ employees = <<>>
    /\ backend = "sqlite"
    /\ procs = [p \in 1..NumProcs |-> IdleProc]
    /\ last = [op |-> "create_issue", id |-> 3, arg |-> None, out |-> "ok"]

\* (skip, limit) of a page
DashPages == {<<0, 2>>, <<1, 1>>}

DashQueries == {"halle", "cnc", "e A"}

NextDash ==
    \/ \E i \in DOMAIN issues, status \in IssueStatus : UpdateIssueStatus(i, status)
    \/ \E page \in DashPages : GetMachinesWithOpenIssues(page[1], page[2])
    \/ \E query \in DashQueries : SearchMachinesWithOpenIssues(query)

SpecDash == InitDash /\ [][NextDash]_vars

\* C11: every machine that get_machines_with_open_issues or
\* search_machines_with_open_issues returns carries in open_issues each issue
\* of that machine with status open or in_progress once, no other issue, and
\* in an order in which reported_at never rises.
C11_OpenIssuesExact ==
    last.op \in {"get_machines_with_open_issues", "search_machines_with_open_issues"} =>
        \A k \in DOMAIN last.out :
            LET m    == last.out[k].machine
                list == last.out[k].open_issues
            IN  /\ { list[x] : x \in DOMAIN list } =
                      { i \in DOMAIN issues : /\ issues[i].machine_id = m
                                              /\ issues[i].status # "closed" }
                /\ \A x, y \in DOMAIN list : list[x] = list[y] => x = y
                /\ \A x, y \in DOMAIN list :
                      x < y => issues[list[x]].reported_at >= issues[list[y]].reported_at

\* A query returned a machine with two open issues of different reported_at
\* while that machine also has a closed issue.
C11_Witness ==
    /\ last.op \in {"get_machines_with_open_issues", "search_machines_with_open_issues"}
    /\ \E k \in DOMAIN last.out :
          LET m    == last.out[k].machine
              list == last.out[k].open_issues
          IN  /\ Len(list) = 2
              /\ issues[list[1]].reported_at > issues[list[2]].reported_at
              /\ \E i \in DOMAIN issues : issues[i].machine_id = m /\ issues[i].status = "closed"

(***************************************************************************)
(* Routes of main.py.  A route that raises HTTPException before it calls   *)
(* crud leaves the tables alone; the others are the crud call they make.   *)
(***************************************************************************)
\* raise HTTPException(status_code=404, ...)
NotFound(route) ==
    /\ last' = [op |-> route, id |-> NoRow, arg |-> None, out |-> "404"]
    /\ UNCHANGED <<machines, issues, updates, maintenance, employees, now, backend, procs>>

FullNameFirstOnly(employee) == employee.first_name

\* f"{employee.first_name} {employee.last_name}"
FullName(employee) == employee.first_name \o " " \o employee.last_name

\* POST /issues
PostIssue(machine_id, reported_by, reported_at) ==
    IF get_employee(reported_by) = NoRow
    THEN NotFound("POST /issues")
    ELSE CreateIssue([machine_id |-> machine_id, title |-> "Leck", description |-> None,
                      reported_by |-> FullName(employees[reported_by]),
                      reported_at |-> reported_at])

\* status_enum of POST /issues/{issue_id}/updates: the form value when it is
\* one of the enumeration's values, None for every other value
StatusEnum(status_change) ==
    IF status_change # None /\ status_change # "" /\ status_change \in IssueStatus
    THEN status_change
    ELSE None

\* POST /issues/{issue_id}/updates
PostIssueUpdate(issue_id, author, status_change) ==
    IF get_employee(author) = NoRow
    THEN NotFound("POST /issues/{issue_id}/updates")
    ELSE CreateIssueUpdate([issue_id |-> issue_id, note |-> "geprueft",
                            author |-> FullName(employees[author]),
                            status_change |-> StatusEnum(status_change)])

\* POST /issues/{issue_id}/close
CloseIssue(issue_id) == UpdateIssueStatus(issue_id, "closed")

\* POST /maintenance
PostMaintenance(machine_id) ==
    CreateMaintenance([machine_id |-> machine_id, title |-> "Oelwechsel",
                       description |-> None, performed_by |-> "Ada Berg",
                       performed_at |-> NoTime, next_due_at |-> NoTime])

\* POST /admin/machines/{machine_id}/delete
AdminDeleteMachine(machine_id) ==
    IF get_machine(machine_id) = NoRow
    THEN NotFound("POST /admin/machines/{machine_id}/delete")
    ELSE DeleteMachine(machine_id)

\* POST /admin/employees/{employee_id}/delete
AdminDeleteEmployee(employee_id) ==
    IF get_employee(employee_id) = NoRow
    THEN NotFound("POST /admin/employees/{employee_id}/delete")
    ELSE DeleteEmployee(employee_id)

\* POST /admin/employees/{employee_id}/reactivate
AdminReactivateEmployee(employee_id) ==
    IF get_employee(employee_id) = NoRow
    THEN NotFound("POST /admin/employees/{employee_id}/reactivate")
    ELSE ReactivateEmployee(employee_id)

\* What the route that made the last call answers: 404 for an HTTPException,
\* 500 for an exception no route catches, the form with its error message for
\* a ValueError of the employee routes, and the route's success answer
\* otherwise.  close_issue does not look at what update_issue_status returns;
\* admin_update_employee raises 404 when update_employee returns None.
Response ==
    CASE last.out = "404" -> "404"
      [] last.op = "update_issue_status" -> "success"
      [] last.op = "update_employee" /\ last.out = "None" -> "404"
      [] last.out \in {"IntegrityError", "NotNullViolation", "UniqueViolation"} -> "500"
      [] last.out \in Conflict -> "error_message"
      [] last.out = "False" -> "failure"
      [] OTHER -> "success"

(***************************************************************************)
(* SpecHttp: the routes that address a machine, an issue or an employee by *)
(* id, called with ids that exist and ids that do not.                     *)
(***************************************************************************)
\* Values of the status_change form field: absent, empty, the three of the
\* enumeration and two that are not.
StatusInputs == {None, ""} \cup IssueStatus \cup {"done", "CLOSED"}

NextHttp ==
    \/ /\ employees = <<>>
       /\ CreateEmployee(UpdEmployeeCreate)
    \/ /\ issues = <<>>
       /\ \E m \in 1..MaxMachines, e \in 1..MaxEmployees : PostIssue(m, e, NoTime)
    \/ /\ updates = <<>>
       /\ \E i \in 1..MaxIssues, e \in 1..MaxEmployees, s \in StatusInputs :
             PostIssueUpdate(i, e, s)
    \/ \E i \in 1..MaxIssues : CloseIssue(i)
    \/ /\ maintenance = <<>>
       /\ \E m \in 1..MaxMachines : PostMaintenance(m)
    \/ \E m \in 1..MaxMachines : AdminDeleteMachine(m)
    \/ \E e \in 1..MaxEmployees : AdminDeleteEmployee(e)
    \/ \E e \in 1..MaxEmployees : AdminReactivateEmployee(e)

SpecHttp == InitSeeded /\ [][NextHttp]_vars

\* C12: an issue update submitted for a stored issue by a stored employee with
\* a status_change that is none of open, in_progress, closed is not answered
\* with success and stores no IssueUpdate and no status change.
C12_InvalidStatusRejected ==
    [][\A i \in DOMAIN issues, e \in DOMAIN employees :
          \A s \in StatusInputs \ (IssueStatus \cup {None, ""}) :
              PostIssueUpdate(i, e, s) =>
                  /\ updates' = updates
                  /\ issues' = issues
                  /\ Response' # "success"]_vars

\* C13: a route called with an id that has no row answers 404 and not
\* success: closing an issue, adding an update to an issue, creating an issue
\* or a maintenance record for a machine, deleting a machine, deactivating
\* and reactivating an employee.
C13_MissingRowIsNotFound ==
    [][/\ \A i \in (1..MaxIssues) \ DOMAIN issues :
             /\ CloseIssue(i) => Response' = "404"
             /\ \A e \in DOMAIN employees, s \in StatusInputs :
                   PostIssueUpdate(i, e, s) => Response' = "404"
       /\ \A m \in (1..MaxMachines) \ DOMAIN machines :
             /\ \A e \in DOMAIN employees : PostIssue(m, e, NoTime) => Response' = "404"
             /\ PostMaintenance(m) => Response' = "404"
             /\ AdminDeleteMachine(m) => Response' = "404"
       /\ \A e \in (1..MaxEmployees) \ DOMAIN employees :
             /\ AdminDeleteEmployee(e) => Response' = "404"
             /\ AdminReactivateEmployee(e) => Response' = "404"]_vars

(***************************************************************************)
(* SpecNames: employees report an issue and write an issue update, and are *)
(* renamed, deactivated and reactivated before and after.                  *)
(***************************************************************************)
FirstNamePool == <<"Ada", "Bea", "Cem", "Dan">>

LastNamePool == <<"Berg", "Cole", "Dogan", "Ernst">>

\* The k-th employee the admin creates.
NamesCreatePayload(k) ==
    [first_name |-> FirstNamePool[k], last_name |-> LastNamePool[k],
     email |-> EmailPool[k], phone |-> None, department |-> None, position |-> None,
     employee_id |-> CodePool[k], is_active |-> 1]

NamesUpdatePayloads == { [first_name |-> "Eva"] }

NextNames ==
    \/ /\ NextId(employees) <= MaxEmployees
       /\ CreateEmployee(NamesCreatePayload(NextId(employees)))
    \/ /\ issues = <<>>
       /\ \E e \in 1..MaxEmployees : PostIssue(1, e, NoTime)
    \/ /\ updates = <<>>
       /\ \E e \in 1..MaxEmployees : PostIssueUpdate(1, e, "closed")
    \/ \E e \in 1..MaxEmployees, payload \in NamesUpdatePayloads : UpdateEmployee(e, payload)
    \/ \E e \in 1..MaxEmployees : DeleteEmployee(e)
    \/ \E e \in 1..MaxEmployees : ReactivateEmployee(e)
    \/ CloseIssue(1)

SpecNames == InitSeeded /\ [][NextNames]_vars

\* C14: the issue that POST /issues stores has as reported_by the first and
\* last name the referenced employee has at that moment, the issue update that
\* POST /issues/{issue_id}/updates stores has them as author, and no step
\* changes the reported_by of a stored issue or the author of a stored update.
C14_NamesFrozen ==
    [][/\ \A e \in DOMAIN employees :
             (issues' # issues /\ PostIssue(1, e, NoTime)) =>
                 /\ DOMAIN issues' = DOMAIN issues \cup {last'.id}
                 /\ last'.id \notin DOMAIN issues
                 /\ issues'[last'.id].reported_by =
                       employees[e].first_name \o " " \o employees[e].last_name
       /\ \A e \in DOMAIN employees :
             (updates' # updates /\ PostIssueUpdate(1, e, "closed")) =>
                 /\ DOMAIN updates' = DOMAIN updates \cup {last'.id}
                 /\ last'.id \notin DOMAIN updates
                 /\ updates'[last'.id].author =
                       employees[e].first_name \o " " \o employees[e].last_name
       /\ \A i \in DOMAIN issues :
             i \in DOMAIN issues' /\ issues'[i].reported_by = issues[i].reported_by
       /\ \A u \in DOMAIN updates :
             u \in DOMAIN updates' /\ updates'[u].author = updates[u].author]_vars

\* The employee who reported the issue and wrote its update as "Ada Berg" has
\* since been renamed and deactivated and the issue closed; both rows still
\* say "Ada Berg".
C14_Witness ==
    /\ 1 \in DOMAIN issues
    /\ 1 \in DOMAIN updates
    /\ issues[1].reported_by = "Ada Berg"
    /\ updates[1].author = "Ada Berg"
    /\ issues[1].status = "closed"
    /\ employees[1].first_name = "Eva"
    /\ employees[1].is_active = 0
    /\ last.op = "update_employee"

(***************************************************************************)
(* SpecSoft: employees created, renamed, deactivated and reactivated while *)
(* the clock runs.                                                         *)
(***************************************************************************)
NextSoft ==
    \/ /\ NextId(employees) <= MaxEmployees
       /\ CreateEmployee(NamesCreatePayload(NextId(employees)))
    \/ \E e \in 1..MaxEmployees : DeleteEmployee(e)
    \/ \E e \in 1..MaxEmployees : ReactivateEmployee(e)
    \/ \E e \in 1..MaxEmployees, payload \in NamesUpdatePayloads : UpdateEmployee(e, payload)
    \/ Tick

SpecSoft == Init /\ [][NextSoft]_vars

\* The step left every employee row but e's as it was, and of e's row changed
\* at most is_active, to flag, and updated_at, to the clock.
OnlyActiveFlagSet(e, flag) ==
    /\ DOMAIN employees' = DOMAIN employees
    /\ \A x \in DOMAIN employees \ {e} : employees'[x] = employees[x]
    /\ \A f \in DOMAIN employees[e] \ {"is_active", "updated_at"} :
          employees'[e][f] = employees[e][f]
    /\ employees'[e].is_active = flag
    /\ employees'[e].updated_at = now

\* C15: no step removes an employee row; delete_employee sets is_active to 0
\* and reactivate_employee sets it to 1, both set updated_at to the clock and
\* change nothing else, and get_employee still finds the employee afterwards.
C15_SoftDeleteOnly ==
    [][/\ DOMAIN employees \subseteq DOMAIN employees'
       /\ \A e \in DOMAIN employees :
             /\ DeleteEmployee(e) => OnlyActiveFlagSet(e, 0) /\ get_employee(e)' = e
             /\ ReactivateEmployee(e) => OnlyActiveFlagSet(e, 1) /\ get_employee(e)' = e]_vars

\* delete_employee deactivated an employee created at an earlier time, who is
\* still stored.
C15_Witness ==
    /\ last.op = "delete_employee"
    /\ last.out = "True"
    /\ get_employee(last.id) = last.id
    /\ employees[last.id].is_active = 0
    /\ employees[last.id].updated_at > employees[last.id].created_at

\* C16: a machine's public_slug is the one create_machine drew for it: a step
\* that adds a machine gives it a slug of generate_slug, and no step changes
\* the public_slug of a machine that is stored before and after it.
C16_SlugImmutable ==
    [][/\ \A m \in DOMAIN machines' \ DOMAIN machines :
             /\ last'.op = "create_machine"
             /\ machines'[m].public_slug \in generate_slug
       /\ \A m \in DOMAIN machines \cap DOMAIN machines' :
             machines'[m].public_slug = machines[m].public_slug]_vars

\* update_machine renamed a machine while another machine is stored; both
\* hold a slug of generate_slug.
C16_Witness ==
    /\ last.op = "update_machine"
    /\ last.out = "ok"
    /\ machines[last.id].name = "Drehbank"
    /\ machines[last.id].updated_at = now
    /\ Cardinality(DOMAIN machines) = 2
    /\ \A m \in DOMAIN machines : machines[m].public_slug \in generate_slug

(***************************************************************************)
(* SpecGen: create_machine with the random source drawing, for each        *)
(* position of the slug, each character of the alphabet.                   *)
(***************************************************************************)
\* ''.join(secrets.choice(alphabet) for _ in range(length)): the draws with
\* any character at one position and the first character of the alphabet at
\* the others.
GeneratedSlugsShort ==
    { [i \in 1..(SlugLen - 1) |-> IF i = k THEN Alphabet[c] ELSE Alphabet[1]] :
        k \in 1..SlugLen, c \in 1..Len(Alphabet) }

GeneratedSlugs ==
    { [i \in 1..SlugLen |-> IF i = k THEN Alphabet[c] ELSE Alphabet[1]] :
        k \in 1..SlugLen, c \in 1..Len(Alphabet) }

NextGen ==
    \/ /\ machines = <<>>
       /\ StartCreateMachine(1, MachinePayload)
    \/ \E slug \in GeneratedSlugs : EnsureUniqueSlug(1, slug)
    \/ /\ machines = <<>>
       /\ CommitCreateMachine(1)
    \/ DeleteMachine(1)

SpecGen == Init /\ [][NextGen]_vars

LowercaseAndDigits ==
    {"a", "b", "c", "d", "e", "f", "g", "h", "i", "j", "k", "l", "m", "n", "o", "p", "q",
     "r", "s", "t", "u", "v", "w", "x", "y", "z",
     "0", "1", "2", "3", "4", "5", "6", "7", "8", "9"}

WellFormedSlug(slug) ==
    /\ Len(slug) # 0
    /\ Len(slug) = 8
    /\ \A i \in 1..Len(slug) : slug[i] \in LowercaseAndDigits

\* C17: every slug generate_slug produces, and every public_slug of a machine
\* create_machine stored, is non-empty, 8 characters long, and made of
\* characters a-z and 0-9 only.
C17_SlugWellFormed ==
    /\ \A slug \in generate_slug \cup GeneratedSlugs : WellFormedSlug(slug)
    /\ \A p \in DOMAIN procs : procs[p].pc = "insert" => WellFormedSlug(procs[p].slug)
    /\ \A m \in DOMAIN machines : WellFormedSlug(machines[m].public_slug)

\* create_machine stored a machine whose slug holds a digit and a letter.
C17_Witness ==
    /\ last.op = "create_machine"
    /\ last.out = "ok"
    /\ 1 \in DOMAIN machines
    /\ machines[1].public_slug[SlugLen] = "9"
    /\ machines[1].public_slug[1] = "a"

\* C18: nothing reserves a slug between ensure_unique_slug's check and the
\* insert: while one create_machine call holds a slug it has checked and no
\* machine with that slug is committed yet, the check of the same slug by
\* another call still passes and hands it the same slug.
C18_CheckThenInsertRace ==
    \A p, q \in DOMAIN procs, slug \in generate_slug :
        (/\ p # q
         /\ procs[q].pc = "insert"
         /\ procs[q].slug = slug
         /\ get_machine_by_slug(slug) = NoRow
         /\ procs[p].pc = "ensure")
        => ENABLED (EnsureUniqueSlug(p, slug) /\ procs'[p].pc = "insert"
                                              /\ procs'[p].slug = slug)

\* Two create_machine calls have both left ensure_unique_slug with the same
\* slug and neither has inserted yet.
C18_Witness ==
    \E p, q \in DOMAIN procs :
        /\ p # q
        /\ procs[p].pc = "insert"
        /\ procs[q].pc = "insert"
        /\ procs[p].slug = procs[q].slug

\* C19 as stated: create_issue_update commits the IssueUpdate insert first and
\* the status change in a later commit, so the step that stores an IssueUpdate
\* leaves every issue as it was.
C19_UpdateCommittedFirst ==
    [][updates' # updates => issues' = issues]_vars

\* C19 as amended: the IssueUpdate and the status change it carries are
\* written by one commit.  The step that stores an IssueUpdate with a
\* status_change for a stored issue also gives the issue that status; for an
\* issue that is not stored it changes no issue; and a create_issue_update
\* call that stores no IssueUpdate changes no issue.
C19_OneCommit ==
    [][/\ \A u \in DOMAIN updates' \ DOMAIN updates :
             LET change == updates'[u].status_change
                 i      == updates'[u].issue_id
             IN  /\ (change # None /\ i \in DOMAIN issues) =>
                       issues'[i].status = change
                 /\ i \notin DOMAIN issues => issues' = issues
       /\ (last'.op = "create_issue_update" /\ updates' = updates) => issues' = issues]_vars

\* An issue update carrying open is stored and its issue, closed before, is
\* open again.
C19_Witness ==
    /\ last.op = "create_issue_update"
    /\ last.out = "ok"
    /\ updates[last.id].status_change = "open"
    /\ updates[last.id].issue_id \in DOMAIN issues
    /\ issues[updates[last.id].issue_id].status = "open"
    /\ issues[updates[last.id].issue_id].closed_at # NoTime

(***************************************************************************)
(* SpecRace: update_issue_status calls of concurrent requests, each with   *)
(* a session of its own, taken statement by statement.                     *)
(***************************************************************************)
\* get_issue and the setattr of update_issue_status: the session loads the
\* row and holds the new values next to the loaded ones.
LoadIssue(p, issue_id, status) ==
    /\ procs[p].pc = "idle"
    /\ IF get_issue(issue_id) = NoRow
       THEN /\ last' = [op |-> "update_issue_status", id |-> NoRow, arg |-> None,
                        out |-> "None"]
            /\ procs' = procs
       ELSE /\ procs' = [procs EXCEPT ![p] =
                            [pc |-> "commit",
                             payload |-> [issue_id |-> issue_id, status |-> status,
                                          loaded |-> issues[issue_id], stamp |-> now],
                             slug |-> Unset]]
            /\ last' = last
    /\ UNCHANGED <<machines, issues, updates, maintenance, employees, now, backend>>

\* The UPDATE the session's flush emits: the columns whose value differs from
\* the loaded one, and no others.
FlushIssue(row, call) ==
    [row EXCEPT !.status = IF call.status # call.loaded.status THEN call.status ELSE @,
                !.closed_at = IF call.status = "closed" /\ call.stamp # call.loaded.closed_at
                              THEN call.stamp ELSE @]

\* db.commit() and db.refresh(db_issue) of update_issue_status
CommitIssue(p) ==
    /\ procs[p].pc = "commit"
    /\ LET call == procs[p].payload
       IN  /\ issues' = [issues EXCEPT ![call.issue_id] = FlushIssue(@, call)]
           /\ last' = [op |-> "update_issue_status", id |-> call.issue_id,
                       arg |-> call.status, out |-> "ok"]
    /\ procs' = [procs EXCEPT ![p] = IdleProc]
    /\ UNCHANGED <<machines, updates, maintenance, employees, now, backend>>

NextRace ==
    \/ /\ issues = <<>>
       /\ \E payload \in IssuePayloads : CreateIssue(payload)
    \/ \E p \in 1..NumProcs, s \in IssueStatus : LoadIssue(p, 1, s)
    \/ \E p \in 1..NumProcs : CommitIssue(p)

SpecRace == InitSeeded /\ [][NextRace]_vars

\* C20: concurrent status updates of one issue are all accepted, and the
\* issue has the status of the update that committed last.
C20_LastWriteWins ==
    (last.op = "update_issue_status" /\ last.id # NoRow) =>
        /\ last.out = "ok"
        /\ issues[last.id].status = last.arg

(***************************************************************************)
(* SpecSession: the get_db dependency.  A request in flight holds the      *)
(* session get_db yielded to its handler; the handler returns or raises;   *)
(* the finally clause of get_db closes the session and the request ends.   *)
(***************************************************************************)
\* The sessions that are open: those of the requests between get_db's yield
\* and its db.close().
OpenSessions ==
    { procs[p].payload.session :
        p \in { q \in DOMAIN procs : procs[q].pc \in {"handler", "finally"} } }

\* A request that holds no session.
NoSession == [pc |-> "idle", payload |-> [session |-> NoRow, outcome |-> None],
              slug |-> Unset]

\* The application after start-up, no request in flight.
InitSession ==
    /\ machines = <<>>
    /\ issues = <<>>
    /\ updates = <<>>
    /\ maintenance = <<>>
    /\ employees = <<>>
    /\ now = 0
    /\ backend \in {"sqlite", "postgres"}
    /\ procs = [p \in 1..NumProcs |-> NoSession]
    /\ last = [op |-> "none", id |-> NoRow, arg |-> NoRow, out |-> None]

SessionLocalShared == Min(1..NumProcs)

\* SessionLocal(): a Session object constructed by the call, distinct from
\* every session that is open.
SessionLocal == Min((1..NumProcs) \ OpenSessions)

\* db = SessionLocal(); yield db
GetDb(p) ==
    /\ procs[p].pc = "idle"
    /\ procs' = [procs EXCEPT ![p] =
                    [pc |-> "handler",
                     payload |-> [session |-> SessionLocal, outcome |-> None],
                     slug |-> Unset]]
    /\ last' = [op |-> "get_db", id |-> p, arg |-> SessionLocal, out |-> "yielded"]
    /\ UNCHANGED <<machines, issues, updates, maintenance, employees, now, backend>>

\* The handler ends: it returns its response, or it raises (an HTTPException,
\* or an error of the storage engine that no handler catches).
HandlerEnds(p, outcome) ==
    /\ procs[p].pc = "handler"
    /\ procs' = [procs EXCEPT ![p].pc = "finally", ![p].payload.outcome = outcome]
    /\ UNCHANGED <<machines, issues, updates, maintenance, employees, now, backend, last>>

CloseDbOnReturnOnly(p) ==
    /\ procs[p].pc = "finally"
    /\ procs[p].payload.outcome = "returned"
    /\ procs' = [procs EXCEPT ![p] = NoSession]
    /\ last' = [op |-> "get_db", id |-> p, arg |-> procs[p].payload.session,
                out |-> procs[p].payload.outcome]
    /\ UNCHANGED <<machines, issues, updates, maintenance, employees, now, backend>>

\* finally: db.close()
CloseDb(p) ==
    /\ procs[p].pc = "finally"
    /\ procs' = [procs EXCEPT ![p] = NoSession]
    /\ last' = [op |-> "get_db", id |-> p, arg |-> procs[p].payload.session,
                out |-> procs[p].payload.outcome]
    /\ UNCHANGED <<machines, issues, updates, maintenance, employees, now, backend>>

HandlerOutcomes == {"returned", "raised"}

NextSession ==
    \/ \E p \in 1..NumProcs : GetDb(p)
    \/ \E p \in 1..NumProcs, outcome \in HandlerOutcomes : HandlerEnds(p, outcome)
    \/ \E p \in 1..NumProcs : CloseDb(p)
    \/ Tick

\* Where each request is.
Positions == [p \in DOMAIN procs |-> procs[p].pc]

\* The finally clause of a generator dependency runs once the handler has
\* ended, so a request waiting at it is not left there for ever.
SpecSession ==
    /\ InitSession
    /\ [][NextSession]_vars
    /\ \A p \in 1..NumProcs : WF_Positions(CloseDb(p))

\* C21: the requests in flight hold sessions of their own, no two the same,
\* and once a handler has ended, by returning or by raising, the session of
\* its request is eventually closed.
C21_SessionPerRequest ==
    /\ [](\A p, q \in DOMAIN procs :
            (/\ p # q
             /\ procs[p].pc \in {"handler", "finally"}
             /\ procs[q].pc \in {"handler", "finally"})
            => procs[p].payload.session # procs[q].payload.session)
    /\ \A p \in 1..NumProcs, outcome \in HandlerOutcomes :
          (procs[p].pc = "finally" /\ procs[p].payload.outcome = outcome)
              ~> (procs[p].pc = "idle" /\ last.op = "get_db" /\ last.id = p
                                       /\ last.out = outcome)

\* The session of a request whose handler raised was closed while another
\* request was in its handler with a session of its own.
C21_Witness ==
    /\ last.op = "get_db"
    /\ last.out = "raised"
    /\ procs[last.id].pc = "idle"
    /\ \E q \in DOMAIN procs : procs[q].pc = "handler"

\* C22: in every reachable state, after create_issue, create_maintenance and
\* create_issue_update calls with any ids and delete_machine calls, every
\* issue's and every maintenance record's machine_id is a stored machine's id
\* and every issue update's issue_id is a stored issue's id.
C22_ReferencesExist ==
    /\ \A i \in DOMAIN issues : issues[i].machine_id \in DOMAIN machines
    /\ \A k \in DOMAIN maintenance : maintenance[k].machine_id \in DOMAIN machines
    /\ \A u \in DOMAIN updates : updates[u].issue_id \in DOMAIN issues

(***************************************************************************)
(* SpecSlugFair: concurrent create_machine calls with a fair random        *)
(* source.  secrets.choice draws every slug with the same probability at   *)
(* every turn of the loop, so a                                            *)
(* call cannot turn for ever in ensure_unique_slug while a draw that would *)
(* let it leave stays possible.                                            *)
(***************************************************************************)
\* One turn of the loop of call p, with any draw.
EnsureTurn(p) == \E slug \in generate_slug : EnsureUniqueSlug(p, slug)

\* create_machine calls in flight and delete_machine, which frees slugs.
NextSlugFair ==
    \/ \E p \in 1..NumProcs : StartCreateMachine(p, MachinePayload)
    \/ \E p \in 1..NumProcs, slug \in generate_slug : EnsureUniqueSlug(p, slug)
    \/ /\ NextId(machines) <= MaxMachines
       /\ \E p \in 1..NumProcs : CommitCreateMachine(p)
    \/ \E m \in 1..MaxMachines : DeleteMachine(m)

SpecSlugFair ==
    /\ Init
    /\ [][NextSlugFair]_vars
    /\ \A p \in 1..NumProcs : WF_vars(EnsureTurn(p))

\* Every slug of the random source is a stored machine's.
NoSlugUnused == \A slug \in generate_slug : get_machine_by_slug(slug) # NoRow

\* C23: ensure_unique_slug returns only a slug of the random source that no
\* stored machine holds at the check it returns from; while it has not
\* returned it can always take another turn, whatever the draw, and a turn
\* raises nothing and changes no table; and with a fair random source a call
\* in the loop eventually returns, unless every slug comes to be in use.
C23_EnsureUniqueSlug ==
    /\ [][\A p \in DOMAIN procs :
            (procs[p].pc = "ensure" /\ procs'[p].pc = "insert") =>
                /\ procs'[p].slug \in generate_slug
                /\ get_machine_by_slug(procs'[p].slug) = NoRow
                /\ machines' = machines
                /\ last' = last]_vars
    /\ [](\A p \in DOMAIN procs, slug \in generate_slug :
            procs[p].pc = "ensure" =>
                ENABLED (EnsureUniqueSlug(p, slug) /\ machines' = machines /\ last' = last))
    /\ \A p \in 1..NumProcs :
          (procs[p].pc = "ensure") ~> (procs[p].pc = "insert" \/ NoSlugUnused)

\* A call has left ensure_unique_slug with a slug no machine holds while a
\* machine with the other slug is stored.
C23_Witness ==
    \E p \in DOMAIN procs :
        /\ procs[p].pc = "insert"
        /\ get_machine_by_slug(procs[p].slug) = NoRow
        /\ machines # <<>>

(***************************************************************************)
(* SpecEmpRace: create_employee calls of concurrent requests, each with a  *)
(* session of its own: the two existence queries read the committed table, *)
(* and the commit comes later.                                             *)
(***************************************************************************)
\* The two existence checks of create_employee and, when both pass,
\* models.Employee(**employee.dict()) and db.add(db_employee).
CheckCreateEmployee(p, payload) ==
    /\ procs[p].pc = "idle"
    /\ IF CreateChecks(payload) = "ok"
       THEN /\ procs' = [procs EXCEPT ![p] = [pc |-> "add", payload |-> payload,
                                             slug |-> Unset]]
            /\ last' = last
       ELSE /\ procs' = procs
            /\ last' = [op |-> "create_employee", id |-> NoRow, arg |-> payload,
                        out |-> CreateChecks(payload)]
    /\ UNCHANGED <<machines, issues, updates, maintenance, employees, now, backend>>

\* db.commit() and db.refresh(db_employee) of create_employee
CommitCreateEmployee(p) ==
    /\ procs[p].pc = "add"
    /\ LET id     == NextId(employees)
           t      == Put(employees, id, NewEmployee(procs[p].payload))
           answer == EmployeeCommit(t)
       IN  /\ employees' = IF answer = "ok" THEN t ELSE employees
           /\ last' = [op |-> "create_employee", id |-> IF answer = "ok" THEN id ELSE NoRow,
                       arg |-> procs[p].payload, out |-> answer]
    /\ procs' = [procs EXCEPT ![p] = IdleProc]
    /\ UNCHANGED <<machines, issues, updates, maintenance, now, backend>>

\* EmployeeCreate payloads that collide on the email, on the employee_id, on
\* both or on neither.
EmpRacePayloads ==
    { payload \in EmpCreatePayloads :
        /\ payload.email \in {EmailPool[1], EmailPool[2]}
        /\ payload.employee_id \in {CodePool[1], CodePool[2]} }

NextEmpRace ==
    \/ \E p \in 1..NumProcs, payload \in EmpRacePayloads : CheckCreateEmployee(p, payload)
    \/ /\ NextId(employees) <= MaxEmployees
       /\ \E p \in 1..NumProcs : CommitCreateEmployee(p)

SpecEmpRace == Init /\ [][NextEmpRace]_vars

\* C24: of the create_employee calls in flight with one email, or with one
\* employee_id, at most one ends with a stored employee, also when all of
\* them passed their existence checks before any committed: no two stored
\* employees share an email or an employee_id, and the commit of a call whose
\* email or employee_id a stored employee has by then stores nothing.
C24_OneCreateWins ==
    /\ [](\A a, b \in DOMAIN employees :
            a # b => /\ employees[a].email # employees[b].email
                     /\ employees[a].employee_id # employees[b].employee_id)
    /\ [][\A p \in DOMAIN procs :
            (procs[p].pc = "add" /\ procs'[p].pc = "idle") =>
                LET payload == procs[p].payload
                    taken   == \E e \in DOMAIN employees :
                                  \/ employees[e].email = payload.email
                                  \/ employees[e].employee_id = payload.employee_id
                IN  IF taken
                    THEN /\ employees' = employees
                         /\ last'.out = "UniqueViolation"
                    ELSE /\ last'.out = "ok"
                         /\ DOMAIN employees' = DOMAIN employees \cup {last'.id}
                         /\ employees'[last'.id].email = payload.email]_vars

\* Two calls with the same employee_id and different emails had both passed
\* their checks; one is stored, and the commit of the other was refused.
C24_Witness ==
    /\ last.op = "create_employee"
    /\ last.out = "UniqueViolation"
    /\ \E e \in DOMAIN employees :
          /\ employees[e].employee_id = last.arg.employee_id
          /\ employees[e].email # last.arg.email

(***************************************************************************)
(* SpecConflict: employees created and updated one call at a time while    *)
(* the clock runs, the updates with all eight fields as                    *)
(* admin_update_employee sends them or with one field.                     *)
(***************************************************************************)
\* EmployeeCreate payloads for the next employee: the admin's own, and the
\* same with the email or the employee_id of the first employee.
ConflictCreatePayloads ==
    LET fresh == NamesCreatePayload(NextId(employees))
    IN  { fresh, [fresh EXCEPT !.email = EmailPool[1]],
          [fresh EXCEPT !.employee_id = CodePool[1]] }

\* EmployeeUpdate payloads: all eight fields, with the email of the first or
\* the second employee or one no created employee has and the employee_id of
\* the first or the second employee; and the email alone.
ConflictUpdatePayloads ==
    { [UpdEmployeeFields EXCEPT !.email = e, !.employee_id = c] :
        e \in {EmailPool[1], EmailPool[2], EmailPool[MaxEmployees + 1]},
        c \in {CodePool[1], CodePool[2]} }
        \cup { [email |-> EmailPool[2]] }

NextConflict ==
    \/ /\ NextId(employees) <= MaxEmployees
       /\ \E payload \in ConflictCreatePayloads : CreateEmployee(payload)
    \/ \E payload \in ConflictUpdatePayloads : UpdateEmployee(1, payload)
    \/ Tick

SpecConflict == Init /\ [][NextConflict]_vars

\* C25: a create_employee or update_employee call that raises a Conflict
\* leaves the employees table as it was: no row added, no field of the
\* targeted employee changed, updated_at and the payload's other fields
\* included.
C25_ConflictChangesNothing ==
    [][(/\ last'.op \in {"create_employee", "update_employee"}
        /\ last'.out \in Conflict)
       => employees' = employees]_vars

\* update_employee raised "Employee ID already exists" for a payload whose
\* email was free and whose first_name was new, at a time later than the
\* employee's updated_at: the employee has its old email, first_name and
\* updated_at.
C25_Witness ==
    /\ last.op = "update_employee"
    /\ last.out = EmployeeIdExists
    /\ "first_name" \in DOMAIN last.arg
    /\ last.arg.first_name # employees[last.id].first_name
    /\ last.arg.email # employees[last.id].email
    /\ get_employee_by_email(last.arg.email) = NoRow
    /\ employees[last.id].updated_at < now

\* A step in which update_issue_status, called directly or by
\* create_issue_update, sets the status of issue i to closed.
Closes(i) ==
    \/ UpdateIssueStatus(i, "closed")
    \/ \E payload \in UpdatePayloads :
          /\ payload.issue_id = i
          /\ payload.status_change = "closed"
          /\ CreateIssueUpdate(payload)
          /\ updates' # updates

\* C26: closed_at is the time of the last operation that set the issue to
\* closed, and null while there was none: a new issue has none, a step that
\* sets the status to closed, of an issue already closed too, leaves the
\* clock's time in closed_at, and every other step leaves closed_at as it was.
C26_ClosedAtIsLastClose ==
    [][\A i \in DOMAIN issues' :
          IF i \notin DOMAIN issues
          THEN issues'[i].closed_at = NoTime
          ELSE IF Closes(i)
          THEN /\ issues'[i].status = "closed"
               /\ issues'[i].closed_at = now
          ELSE issues'[i].closed_at = issues[i].closed_at]_vars

\* An issue closed through an issue update was closed again later by
\* update_issue_status, and its closed_at is the later time.
C26_Witness ==
    /\ last.op = "update_issue_status"
    /\ last.out = "ok"
    /\ issues[last.id].status = "closed"
    /\ issues[last.id].closed_at = now
    /\ \E u \in DOMAIN updates :
          /\ updates[u].issue_id = last.id
          /\ updates[u].status_change = "closed"
          /\ updates[u].created_at < now

====
